---- MODULE Spec2Model ----
(***************************************************************************)
(* Horizon state sync validators of the Tari base node                     *)
(* (base_layer/core/src/base_node/states/horizon_state_sync/validators.rs) *)
(*                                                                         *)
(*   HorizonHeadersValidator     validate(&BlockHeader)                    *)
(*   HorizonFinalStateValidator  validate(&u64)                            *)
(*   HeaderIter                  the chunked header iterator               *)
(*                                                                         *)
(* The blockchain database, the consensus rules, the retargeting function  *)
(* and the commitment factory are collaborators of this file: the database *)
(* answers are inputs of the calls, the commitment group is Z_q x Z_q.     *)
(***************************************************************************)
EXTENDS Integers, Sequences, FiniteSets, TLC

VARIABLES
    chain,               \* db: the stored headers, chain[h + 1] is the header of height h
    utxos,               \* db: the UTXO set (their commitments)
    kernels,             \* db: the kernel set (their excesses)
    rules,               \* consensus constants read by the header validator
    scenario,            \* which bounded family of inputs the behaviour draws from
    pc,                  \* "idle" before the call, "done" after it
    header,              \* HorizonHeadersValidator::validate: the header argument
    db,                  \* how storage answers during the call
    retarget,            \* what get_target_difficulty answers during the call
    result,              \* what HorizonHeadersValidator::validate returned
    target_difficulties, \* what fetch_target_difficulties returned, if it ran
    horizon_height,      \* HorizonFinalStateValidator::validate: the argument
    supply,              \* what supply_at_block(horizon_height) answers
    failing,             \* the storage read of the final-state call that fails, if any
    final_result,        \* what HorizonFinalStateValidator::validate returned
    iter,                \* the HeaderIter struct
    items,               \* every Some(item) the iterator has yielded, in order
    delivered,           \* every header storage has handed to the iterator, in order
    fetch_calls,         \* the number of fetch_headers calls the iterator has made
    complete,            \* every fetch so far succeeded with all requested headers
    last                 \* what the latest pull returned

vars == <<chain, utxos, kernels, rules, scenario, pc, header, db, retarget, result,
          target_difficulties, horizon_height, supply, failing, final_result,
          iter, items, delivered, fetch_calls, complete, last>>

----------------------------------------------------------------------------
(* Bounds of the model *)

MaxTip == 3
MaxTime == 1
MaxDifficulty == 1
MaxWindow == 2
MaxMedian == 3
MaxHeight == 6
MaxChunkSize == 3
HorizonSpan == 2
GroupOrder == 3

(* Program constants *)

HEADER_CHUNK_SIZE == 100
GENESIS_TARGET_DIFFICULTY == 1

----------------------------------------------------------------------------
(* Small helpers *)

Min(a, b) == IF a <= b THEN a ELSE b

saturating_sub(a, b) == IF a >= b THEN a - b ELSE 0

Reverse(s) == [i \in 1..Len(s) |-> s[Len(s) + 1 - i]]

\* (a..b) of Rust, b excluded, as a sequence
Range(a, b) == [i \in 1..(IF b > a THEN b - a ELSE 0) |-> a + i - 1]

\* (a..=b) of Rust, b included, as a sequence
RangeInclusive(a, b) == [i \in 1..(IF b >= a THEN b - a + 1 ELSE 0) |-> a + i - 1]

\* slice::chunks(n) for n > 0
RECURSIVE chunks(_, _)
chunks(s, n) ==
    IF Len(s) = 0 THEN <<>>
    ELSE IF Len(s) <= n THEN <<s>>
    ELSE <<SubSeq(s, 1, n)>> \o chunks(SubSeq(s, n + 1, Len(s)), n)

----------------------------------------------------------------------------
(* Data *)

PowAlgos == {"Blake", "Monero"}

GenesisBlockHash == "genesis"
OtherHash == "other"

BlockHeader(height, hash, timestamp, pow_algo, target_difficulty, achieved, offset) ==
    [height |-> height, hash |-> hash, timestamp |-> timestamp, pow_algo |-> pow_algo,
     target_difficulty |-> target_difficulty, achieved_difficulty |-> achieved,
     total_kernel_offset |-> offset]

\* A stored header: its target difficulty and kernel offset tell the heights apart.
StoredHeader(h, timestamp, pow_algo) ==
    BlockHeader(h, IF h = 0 THEN GenesisBlockHash ELSE OtherHash, timestamp, pow_algo,
                h + 1, h + 1, 1 + (h % (GroupOrder - 1)))

PatternChain(n) == [i \in 1..n |-> StoredHeader(i - 1, (i - 1) % (MaxTime + 1), "Blake")]

DummyHeader == StoredHeader(0, 0, "Blake")

----------------------------------------------------------------------------
(* Storage: BlockchainDatabase *)

NoLimit == HEADER_CHUNK_SIZE + MaxHeight + MaxTip + 2

Answer(tip_fail, fail, reversed, limit) ==
    [tip_fail |-> tip_fail, fail |-> fail, reversed |-> reversed, limit |-> limit]

Ordered == Answer(FALSE, FALSE, FALSE, NoLimit)
Reversed == Answer(FALSE, FALSE, TRUE, NoLimit)
HeadersFail == Answer(FALSE, TRUE, FALSE, NoLimit)
TipFail == Answer(TRUE, TRUE, FALSE, NoLimit)
Short(k) == Answer(FALSE, FALSE, FALSE, k)

fetch_tip_header(answer) ==
    IF answer.tip_fail THEN [ok |-> FALSE, header |-> DummyHeader]
    ELSE [ok |-> TRUE, header |-> chain[Len(chain)]]

\* Ok(the headers of the first `limit` requested heights), in request order or reversed
fetch_headers(block_nums, answer) ==
    IF answer.fail THEN [ok |-> FALSE, headers |-> <<>>]
    ELSE LET n == Min(Len(block_nums), answer.limit)
             got == [i \in 1..n |-> chain[block_nums[i] + 1]]
         IN  [ok |-> TRUE, headers |-> IF answer.reversed THEN Reverse(got) ELSE got]

----------------------------------------------------------------------------
(* HeaderIter *)

HeaderIter_new(max_height, chunk_size) ==
    [chunk |-> <<>>, chunk_size |-> chunk_size, cursor |-> 0, is_error |-> FALSE,
     max_height |-> max_height]

next_chunk_exclusive(it) ==
    Range(it.cursor, Min(it.cursor + it.chunk_size, it.max_height))

next_chunk(it) ==
    LET upper_bound == Min(it.cursor + it.chunk_size, it.max_height)
    IN  RangeInclusive(it.cursor, upper_bound)

None == [tag |-> "None"]
SomeOk(h) == [tag |-> "Ok", header |-> h]
SomeErr == [tag |-> "Err"]
Panic == [tag |-> "panic"]

Pulled(it, item, asked, got) == [it |-> it, item |-> item, asked |-> asked, got |-> got]

\* Some(Ok(self.chunk.remove(0))): Vec::remove panics on an empty vector
remove_first(it, asked, got) ==
    IF Len(it.chunk) = 0 THEN Pulled(it, Panic, asked, got)
    ELSE Pulled([it EXCEPT !.chunk = Tail(@)], SomeOk(Head(it.chunk)), asked, got)

HeaderIter_next_retrying(it, answer) ==
    IF Len(it.chunk) = 0
    THEN LET block_nums == next_chunk(it) IN
         IF Len(block_nums) = 0 THEN Pulled(it, None, 0, <<>>)
         ELSE LET fetched == fetch_headers(block_nums, answer) IN
              IF fetched.ok
              THEN remove_first([it EXCEPT !.cursor = @ + Len(fetched.headers),
                                           !.chunk = @ \o fetched.headers],
                                Len(block_nums), fetched.headers)
              ELSE Pulled([it EXCEPT !.is_error = TRUE], SomeErr, Len(block_nums), <<>>)
    ELSE remove_first(it, 0, <<>>)

\* One pull. asked: the number of heights requested from storage (0: no fetch).
HeaderIter_next(it, answer) ==
    IF it.is_error THEN Pulled(it, None, 0, <<>>)
    ELSE IF Len(it.chunk) = 0
    THEN LET block_nums == next_chunk(it) IN
         IF Len(block_nums) = 0 THEN Pulled(it, None, 0, <<>>)
         ELSE LET fetched == fetch_headers(block_nums, answer) IN
              IF fetched.ok
              THEN remove_first([it EXCEPT !.cursor = @ + Len(fetched.headers),
                                           !.chunk = @ \o fetched.headers],
                                Len(block_nums), fetched.headers)
              ELSE Pulled([it EXCEPT !.is_error = TRUE], SomeErr, Len(block_nums), <<>>)
    ELSE remove_first(it, 0, <<>>)

----------------------------------------------------------------------------
(* proof_of_work::get_median_timestamp: None for no timestamps, else the middle *)
(* element of the sorted timestamps (the lower middle one of an even number)    *)

get_median_timestamp(timestamps) ==
    IF Len(timestamps) = 0 THEN [some |-> FALSE, value |-> 0]
    ELSE LET sorted == SortSeq(timestamps, LAMBDA a, b : a < b)
         IN  [some |-> TRUE, value |-> sorted[(Len(sorted) + 1) \div 2]]

----------------------------------------------------------------------------
(* HorizonHeadersValidator *)

is_genesis(block_header) ==
    block_header.height = 0 /\ GenesisBlockHash = block_header.hash

check_median_timestamp_no_bypass(block_header, tip_header, answer) ==
    LET start_height ==
            saturating_sub(block_header.height, rules.median_timestamp_count)
        fetched == fetch_headers(Range(start_height, tip_header.height), answer)
        timestamps ==
            Append([i \in 1..Len(fetched.headers) |-> fetched.headers[i].timestamp],
                   tip_header.timestamp)
        median_timestamp == get_median_timestamp(timestamps)
    IN  IF start_height = tip_header.height THEN "Ok"
        ELSE IF ~fetched.ok THEN "CustomError"
        ELSE IF ~median_timestamp.some THEN "panic"
        ELSE IF block_header.timestamp < median_timestamp.value THEN "InvalidTimestamp"
        ELSE "Ok"

check_median_timestamp(block_header, tip_header, answer) ==
    IF is_genesis(block_header) THEN "Ok"
    ELSE
    LET start_height ==
            saturating_sub(block_header.height, rules.median_timestamp_count)
        fetched == fetch_headers(Range(start_height, tip_header.height), answer)
        timestamps ==
            Append([i \in 1..Len(fetched.headers) |-> fetched.headers[i].timestamp],
                   tip_header.timestamp)
        median_timestamp == get_median_timestamp(timestamps)
    IN  IF start_height = tip_header.height THEN "Ok"
        ELSE IF ~fetched.ok THEN "CustomError"
        ELSE IF ~median_timestamp.some THEN "panic"
        ELSE IF block_header.timestamp < median_timestamp.value THEN "InvalidTimestamp"
        ELSE "Ok"

Fetched(tag, value) == [tag |-> tag, value |-> value]

\* the loop over heights.chunks(block_window): one batch per step
RECURSIVE collect(_, _, _, _, _)
collect(batches, collected, pow_algo, block_window, answer) ==
    IF Len(batches) = 0 THEN Fetched("Ok", collected)
    ELSE
    LET headers == fetch_headers(Head(batches), answer)
        max_remaining == saturating_sub(block_window, Len(collected))
        matching == SelectSeq(headers.headers, LAMBDA h : h.pow_algo = pow_algo)
        taken == SubSeq(matching, 1, Min(max_remaining, Len(matching)))
        extended ==
            collected \o [i \in 1..Len(taken) |->
                             <<taken[i].timestamp, taken[i].target_difficulty>>]
    IN  IF ~headers.ok THEN Fetched("Err", <<>>)
        ELSE IF Len(extended) > block_window THEN Fetched("panic", <<>>)
        ELSE IF Len(extended) = block_window THEN Fetched("Ok", extended)
        ELSE collect(Tail(batches), extended, pow_algo, block_window, answer)

fetch_target_difficulties_no_early_return(block_header, tip_header, answer) ==
    LET block_window == rules.difficulty_block_window
        heights == Reverse(RangeInclusive(0, tip_header.height))
        got == IF block_window = 0 THEN Fetched("panic", <<>>)
               ELSE collect(chunks(heights, block_window), <<>>, block_header.pow_algo,
                            block_window, answer)
    IN  Fetched(got.tag, Reverse(got.value))

fetch_target_difficulties_no_reverse(block_header, tip_header, answer) ==
    LET block_window == rules.difficulty_block_window
        start_height == saturating_sub(tip_header.height, block_window)
        heights == Reverse(RangeInclusive(0, tip_header.height))
    IN  IF start_height = tip_header.height THEN Fetched("Ok", <<>>)
        ELSE collect(chunks(heights, block_window), <<>>, block_header.pow_algo,
                     block_window, answer)

\* Rust's chunks(0) panics; the assert panics when more than block_window are collected
fetch_target_difficulties(block_header, tip_header, answer) ==
    LET block_window == rules.difficulty_block_window
        start_height == saturating_sub(tip_header.height, block_window)
        heights == Reverse(RangeInclusive(0, tip_header.height))
        got == IF block_window = 0 THEN Fetched("panic", <<>>)
               ELSE collect(chunks(heights, block_window), <<>>, block_header.pow_algo,
                            block_window, answer)
    IN  IF start_height = tip_header.height THEN Fetched("Ok", <<>>)
        ELSE Fetched(got.tag, Reverse(got.value))

check_achieved_first(block_header, tip_header, answer, retargeted) ==
    LET window == IF is_genesis(block_header) THEN Fetched("Ok", <<>>)
                  ELSE fetch_target_difficulties(block_header, tip_header, answer)
        target == IF is_genesis(block_header) THEN GENESIS_TARGET_DIFFICULTY
                  ELSE retargeted.value
    IN  IF window.tag = "panic" THEN "panic"
        ELSE IF window.tag = "Err" THEN "CustomError"
        ELSE IF ~is_genesis(block_header) /\ ~retargeted.ok THEN "InvalidProofOfWork"
        ELSE IF block_header.achieved_difficulty < target THEN "AchievedDifficultyTooLow"
        ELSE IF block_header.target_difficulty # target THEN "InvalidTargetDifficulty"
        ELSE "Ok"

\* retargeted: the answer of get_target_difficulty(target_difficulties, ...)
check_achieved_and_target_difficulty(block_header, tip_header, answer, retargeted) ==
    LET window == IF is_genesis(block_header) THEN Fetched("Ok", <<>>)
                  ELSE fetch_target_difficulties(block_header, tip_header, answer)
        target == IF is_genesis(block_header) THEN GENESIS_TARGET_DIFFICULTY
                  ELSE retargeted.value
    IN  IF window.tag = "panic" THEN "panic"
        ELSE IF window.tag = "Err" THEN "CustomError"
        ELSE IF ~is_genesis(block_header) /\ ~retargeted.ok THEN "InvalidProofOfWork"
        ELSE IF block_header.target_difficulty # target THEN "InvalidTargetDifficulty"
        ELSE IF block_header.achieved_difficulty < target THEN "AchievedDifficultyTooLow"
        ELSE "Ok"

HorizonHeadersValidator_validate(block_header, answer, retargeted) ==
    LET tip_header == fetch_tip_header(answer)
        median == check_median_timestamp(block_header, tip_header.header, answer)
    IN  IF ~tip_header.ok THEN "CustomError"
        ELSE IF median # "Ok" THEN median
        ELSE check_achieved_and_target_difficulty(block_header, tip_header.header, answer,
                                                  retargeted)

\* what fetch_target_difficulties returned during validate, NotCalled if it did not run
fetched_target_difficulties(block_header, answer) ==
    LET tip_header == fetch_tip_header(answer) IN
    IF /\ tip_header.ok
       /\ check_median_timestamp(block_header, tip_header.header, answer) = "Ok"
       /\ ~is_genesis(block_header)
    THEN fetch_target_difficulties(block_header, tip_header.header, answer)
    ELSE [tag |-> "NotCalled", value |-> <<>>]

----------------------------------------------------------------------------
(* Commitments: k.G + v.H in a group of order GroupOrder, as the pair (k, v) *)

Scalars == 0..(GroupOrder - 1)

ScalarAdd(a, b) == (a + b) % GroupOrder

commit(blinding, value) == <<blinding % GroupOrder, value % GroupOrder>>

commit_value(blinding, value) == commit(blinding, value)

CommitmentAdd(a, b) == <<(a[1] + b[1]) % GroupOrder, (a[2] + b[2]) % GroupOrder>>

RECURSIVE CommitmentSum(_)
CommitmentSum(s) ==
    IF Len(s) = 0 THEN commit(0, 0) ELSE CommitmentAdd(Head(s), CommitmentSum(Tail(s)))

----------------------------------------------------------------------------
(* HorizonFinalStateValidator *)

\* the answer of storage to the fetch_no-th fetch_headers call of the scan
ScanAnswer(fetch_no, fails) ==
    IF \/ (fails = "first_headers" /\ fetch_no = 1)
       \/ (fails = "second_headers" /\ fetch_no = 2)
    THEN HeadersFail
    ELSE Ordered

Computed(tag, value) == [tag |-> tag, value |-> value]

Scan(it, total_offset, fetches, tag) ==
    [it |-> it, total_offset |-> total_offset, fetches |-> fetches, tag |-> tag]

\* one turn of: for header in header_iter { total_offset = total_offset + ... }
\* tag: "scanning" while the loop runs, "Ok" once the iterator returned None,
\* "Err" once it yielded an error, "panic" once it panicked
scan_step(s, fails) ==
    IF s.tag # "scanning" THEN s
    ELSE LET p == HeaderIter_next(s.it, ScanAnswer(s.fetches + 1, fails))
             fetches == s.fetches + (IF p.asked > 0 THEN 1 ELSE 0)
         IN  IF p.item.tag = "Ok"
             THEN Scan(p.it, ScalarAdd(s.total_offset, p.item.header.total_kernel_offset),
                       fetches, "scanning")
             ELSE Scan(p.it, s.total_offset, fetches,
                       IF p.item.tag = "None" THEN "Ok" ELSE p.item.tag)

\* up to n turns of the loop (halving n keeps the evaluation shallow)
RECURSIVE scan_steps(_, _, _)
scan_steps(s, n, fails) ==
    IF n = 0 THEN s
    ELSE IF n = 1 THEN scan_step(s, fails)
    ELSE LET first == scan_steps(s, n \div 2, fails)
         IN  IF first.tag = "scanning" THEN scan_steps(first, n - (n \div 2), fails)
             ELSE first

\* the loop ends within height + 2 pulls: height + 1 headers, then None
fetch_total_offset_commitment(height, fails) ==
    LET end == scan_steps(Scan(HeaderIter_new(height, HEADER_CHUNK_SIZE), 0, 0, "scanning"),
                          height + 2, fails)
    IN  Computed(end.tag, commit(end.total_offset, 0))

fetch_aggregate_utxo_commitment(fails) ==
    IF fails = "utxos" THEN Computed("Err", commit(0, 0))
    ELSE Computed("Ok", CommitmentSum(utxos))

get_emission_commitment_at(emission) == commit_value(0, emission)

fetch_aggregate_kernel_excess(fails) ==
    IF fails = "kernels" THEN Computed("Err", commit(0, 0))
    ELSE Computed("Ok", CommitmentSum(kernels))

FinalOk == [kind |-> "Ok", text |-> "", height |-> 0]
StorageFailure == [kind |-> "CustomError", text |-> "storage", height |-> 0]
BalanceFailure(height) ==
    [kind |-> "CustomError",
     text |-> "Final state validation failed: The UTXO commitment did not equal the expected emission at height",
     height |-> height]
FinalPanic == [kind |-> "panic", text |-> "", height |-> 0]

validate_without_offsets(height, emission, fails) ==
    LET total_offset == fetch_total_offset_commitment(height, fails)
        utxo_commitment == fetch_aggregate_utxo_commitment(fails)
        emission_h == get_emission_commitment_at(emission)
        kernel_excess == fetch_aggregate_kernel_excess(fails)
    IN  IF total_offset.tag \notin {"Ok", "Err"} THEN FinalPanic
        ELSE IF total_offset.tag = "Err" THEN StorageFailure
        ELSE IF utxo_commitment.tag = "Err" THEN StorageFailure
        ELSE IF kernel_excess.tag = "Err" THEN StorageFailure
        ELSE IF utxo_commitment.value # CommitmentAdd(emission_h, kernel_excess.value)
             THEN BalanceFailure(height)
        ELSE FinalOk

\* emission: the answer of emission_schedule().supply_at_block(height)
HorizonFinalStateValidator_validate(height, emission, fails) ==
    LET total_offset == fetch_total_offset_commitment(height, fails)
        utxo_commitment == fetch_aggregate_utxo_commitment(fails)
        emission_h == get_emission_commitment_at(emission)
        kernel_excess == fetch_aggregate_kernel_excess(fails)
    IN  IF total_offset.tag \notin {"Ok", "Err"} THEN FinalPanic
        ELSE IF total_offset.tag = "Err" THEN StorageFailure
        ELSE IF utxo_commitment.tag = "Err" THEN StorageFailure
        ELSE IF kernel_excess.tag = "Err" THEN StorageFailure
        ELSE IF utxo_commitment.value #
                    CommitmentAdd(CommitmentAdd(emission_h, kernel_excess.value),
                                  total_offset.value)
             THEN BalanceFailure(height)
        ELSE FinalOk

----------------------------------------------------------------------------
(* The iterator pulled by a caller *)

IterAnswers == {HeadersFail} \cup {Short(k) : k \in 0..(MaxChunkSize + 1)}

NotCalled == [tag |-> "NotCalled", value |-> <<>>]
NoFinalResult == [kind |-> "none", text |-> "", height |-> 0]

IdleValidators ==
    /\ utxos = <<>>
    /\ kernels = <<>>
    /\ rules = [difficulty_block_window |-> 0, median_timestamp_count |-> 0]
    /\ header = DummyHeader
    /\ db = Ordered
    /\ retarget = [ok |-> TRUE, value |-> 1]
    /\ result = "none"
    /\ target_difficulties = NotCalled
    /\ horizon_height = 0
    /\ supply = 0
    /\ failing = "none"
    /\ final_result = NoFinalResult

IdleIterator ==
    /\ iter = HeaderIter_new(0, 1)
    /\ items = <<>>
    /\ delivered = <<>>
    /\ fetch_calls = 0
    /\ complete = TRUE
    /\ last = "none"

InitIter ==
    /\ scenario = "iterator"
    /\ pc = "idle"
    /\ chain = PatternChain(MaxHeight + 1)
    /\ IdleValidators
    /\ \E max_height \in 0..MaxHeight, chunk_size \in 1..MaxChunkSize :
           iter = HeaderIter_new(max_height, chunk_size)
    /\ items = <<>>
    /\ delivered = <<>>
    /\ fetch_calls = 0
    /\ complete = TRUE
    /\ last = "none"

Pull ==
    /\ scenario = "iterator"
    /\ last # "panic"
    /\ \E answer \in IterAnswers :
          LET p == HeaderIter_next(iter, answer) IN
          /\ iter' = p.it
          /\ last' = p.item.tag
          /\ items' = IF p.item.tag \in {"Ok", "Err"} THEN Append(items, p.item) ELSE items
          /\ delivered' = delivered \o p.got
          /\ fetch_calls' = fetch_calls + (IF p.asked > 0 THEN 1 ELSE 0)
          /\ complete' = (complete /\ (p.asked > 0 => (p.item.tag # "Err" /\ Len(p.got) = p.asked)))
    /\ UNCHANGED <<chain, utxos, kernels, rules, scenario, pc, header, db, retarget, result,
                   target_difficulties, horizon_height, supply, failing, final_result>>

NextIter == Pull

SpecIter == InitIter /\ [][NextIter]_vars

----------------------------------------------------------------------------
(* HorizonHeadersValidator::validate called on a stored chain *)

Timestamps == 0..MaxTime
Difficulties == 0..MaxDifficulty
Retargeted == {[ok |-> FALSE, value |-> 0]} \cup {[ok |-> TRUE, value |-> d] : d \in Difficulties}
Answers == {Ordered, Reversed, Short(0), HeadersFail, TipFail}

\* chains of 1..MaxTip+1 headers, by their timestamps and proof-of-work algorithms
ChainOf(timestamps, algos) ==
    [i \in 1..Len(timestamps) |-> StoredHeader(i - 1, timestamps[i], algos[i])]

InitHeaders ==
    /\ pc = "idle"
    /\ \E n \in 1..(MaxTip + 1) :
          \/ /\ scenario = "timestamps"
             /\ \E ts \in [1..n -> Timestamps] :
                    chain = ChainOf(ts, [i \in 1..n |-> "Blake"])
             /\ \E m \in 0..MaxMedian :
                    rules = [difficulty_block_window |-> 0, median_timestamp_count |-> m]
          \/ /\ scenario = "difficulties"
             /\ \E al \in [1..n -> PowAlgos] :
                    chain = ChainOf([i \in 1..n |-> (i - 1) % (MaxTime + 1)], al)
             /\ \E w \in 0..MaxWindow :
                    rules = [difficulty_block_window |-> w,
                             median_timestamp_count |-> MaxMedian]
    /\ utxos = <<>>
    /\ kernels = <<>>
    /\ header = DummyHeader
    /\ db = Ordered
    /\ retarget = [ok |-> TRUE, value |-> 1]
    /\ result = "none"
    /\ target_difficulties = NotCalled
    /\ horizon_height = 0
    /\ supply = 0
    /\ failing = "none"
    /\ final_result = NoFinalResult
    /\ IdleIterator

\* The headers offered to the validator. "timestamps": every height up to tip + 1,
\* both hashes, every timestamp, difficulty fields that pass. "difficulties": the
\* heights 0 and tip + 1, both hashes and algorithms, every recorded and achieved
\* difficulty, a timestamp no median exceeds.
HeaderInputs ==
    IF scenario = "timestamps"
    THEN {BlockHeader(h, x, t, "Blake", 1, 1, 0) :
              h \in 0..Len(chain), x \in {GenesisBlockHash, OtherHash}, t \in Timestamps}
    ELSE UNION {{BlockHeader(h, x, MaxTime, a, d[1], d[2], 0) :
                     h \in {0, Len(chain)}, x \in {GenesisBlockHash, OtherHash}, a \in PowAlgos} :
                d \in Difficulties \X Difficulties}

RetargetInputs ==
    IF scenario = "timestamps" THEN {[ok |-> TRUE, value |-> 1]} ELSE Retargeted

Validate ==
    /\ scenario \in {"timestamps", "difficulties"}
    /\ pc = "idle"
    /\ \E block_header \in HeaderInputs, answer \in Answers, retargeted \in RetargetInputs :
          /\ header' = block_header
          /\ db' = answer
          /\ retarget' = retargeted
          /\ result' = HorizonHeadersValidator_validate(block_header, answer, retargeted)
          /\ target_difficulties' = fetched_target_difficulties(block_header, answer)
    /\ pc' = "done"
    /\ UNCHANGED <<chain, utxos, kernels, rules, scenario, horizon_height, supply, failing,
                   final_result, iter, items, delivered, fetch_calls, complete, last>>

NextHeaders == Validate

SpecHeaders == InitHeaders /\ [][NextHeaders]_vars


\* C6: with storage handing over every requested header in request order, the
\* iterator yields the headers of heights 0, 1, ..., max_height once each and in
\* ascending order, then None on every later pull, and makes at most
\* ceil((max_height + 1) / chunk_size) fetch_headers calls.
C6_ScanYieldsEveryHeightOnce ==
    (scenario = "iterator" /\ complete) =>
        /\ last \notin {"panic", "Err"}
        /\ Len(items) <= iter.max_height + 1
        /\ \A i \in 1..Len(items) : items[i] = SomeOk(chain[i]) /\ chain[i].height = i - 1
        /\ fetch_calls * iter.chunk_size < (iter.max_height + 1) + iter.chunk_size
        /\ (last = "None" => Len(items) = iter.max_height + 1)
        /\ (Len(items) = iter.max_height + 1 =>
               \A answer \in IterAnswers : HeaderIter_next(iter, answer).item = None)

\* a full scan of three batches, the last one shorter
C6_Witness ==
    /\ scenario = "iterator" /\ complete /\ last = "None"
    /\ iter.chunk_size = 2 /\ iter.max_height = 6 /\ fetch_calls = 3 /\ Len(items) = 7

\* C7: when a successful fetch returns fewer headers than requested, the cursor
\* advances by the number received and the pull never ends in anything but an
\* item or None (no panic on an empty buffer).
C7_ShortReadNeverPanics ==
    (scenario = "iterator" /\ ~iter.is_error) =>
        /\ iter.cursor = Len(delivered)
        /\ last # "panic"

\* C8: a failed fetch_headers yields exactly one Err item, the last of the
\* sequence; every item before it is an Ok item, the delivered headers in order;
\* every later pull returns None without calling fetch_headers again.
C8_ErrorEndsTheSequence ==
    (scenario = "iterator" /\ iter.is_error) =>
        /\ last \in {"Err", "None"}
        /\ Len(items) = Len(delivered) + 1
        /\ items[Len(items)] = SomeErr
        /\ \A i \in 1..Len(delivered) : items[i] = SomeOk(delivered[i])
        /\ \A answer \in IterAnswers :
               HeaderIter_next(iter, answer) = Pulled(iter, None, 0, <<>>)

\* a failure after two headers were yielded, followed by a further pull
C8_Witness ==
    /\ scenario = "iterator" /\ iter.is_error /\ last = "None"
    /\ Len(items) = 3 /\ fetch_calls >= 2

----------------------------------------------------------------------------
(* HorizonFinalStateValidator::validate called on a pruned state *)

Commitments == {commit(k, v) : k \in Scalars, v \in Scalars}
Excesses == {commit(k, 0) : k \in Scalars}

\* the UTXO set holds up to two outputs; their order does not matter to a sum
Rank(c) == c[1] * GroupOrder + c[2]
UtxoSets == {<<>>} \cup {<<c>> : c \in Commitments}
                \cup {p \in Commitments \X Commitments : Rank(p[1]) <= Rank(p[2])}
KernelSets == {<<>>} \cup {<<e>> : e \in Excesses}

\* horizon heights at the start of the chain and from the end of the first batch on
HorizonHeights ==
    (0..HorizonSpan) \cup (HEADER_CHUNK_SIZE..(HEADER_CHUNK_SIZE + HorizonSpan))

Failures == {"none", "first_headers", "second_headers", "utxos", "kernels"}

InitFinal ==
    /\ scenario = "final_state"
    /\ pc = "idle"
    /\ chain = PatternChain(HEADER_CHUNK_SIZE + HorizonSpan + 2)
    /\ utxos \in UtxoSets
    /\ kernels \in KernelSets
    /\ rules = [difficulty_block_window |-> 0, median_timestamp_count |-> 0]
    /\ header = DummyHeader
    /\ db = Ordered
    /\ retarget = [ok |-> TRUE, value |-> 1]
    /\ result = "none"
    /\ target_difficulties = NotCalled
    /\ horizon_height = 0
    /\ supply = 0
    /\ failing = "none"
    /\ final_result = NoFinalResult
    /\ IdleIterator

ValidateFinalState ==
    /\ scenario = "final_state"
    /\ pc = "idle"
    /\ \E height \in HorizonHeights, emission \in Scalars, fails \in Failures :
          /\ horizon_height' = height
          /\ supply' = emission
          /\ failing' = fails
          /\ final_result' = HorizonFinalStateValidator_validate(height, emission, fails)
    /\ pc' = "done"
    /\ UNCHANGED <<chain, utxos, kernels, rules, scenario, header, db, retarget, result,
                   target_difficulties, iter, items, delivered, fetch_calls, complete, last>>

NextFinal == ValidateFinalState

SpecFinal == InitFinal /\ [][NextFinal]_vars

----------------------------------------------------------------------------
(* All three together *)

Init == InitIter \/ InitHeaders \/ InitFinal

Next == Pull \/ Validate \/ ValidateFinalState

Spec == Init /\ [][Next]_vars

----------------------------------------------------------------------------
(* Claims about HorizonHeadersValidator *)

TipHeader == chain[Len(chain)]

HeaderValidated == pc = "done" /\ scenario \in {"timestamps", "difficulties"}

ReadsSucceed == db \in {Ordered, Reversed}

\* C1 as stated: a header of height 0 with the genesis hash is valid whatever its
\* timestamp, recorded target difficulty and achieved difficulty are.
C1_GenesisAlwaysValid ==
    (HeaderValidated /\ is_genesis(header) /\ ~db.tip_fail) => result = "Ok"

\* C1 amended: the timestamp step never rejects a genesis header, the difficulty
\* step checks it against the target 1: validate returns Ok exactly when the
\* recorded target difficulty is 1 and the achieved difficulty is at least 1.
C1_GenesisCheckedAgainstTargetOne ==
    (HeaderValidated /\ is_genesis(header) /\ ~db.tip_fail) =>
        result = IF header.target_difficulty # 1 THEN "InvalidTargetDifficulty"
                 ELSE IF header.achieved_difficulty < 1 THEN "AchievedDifficultyTooLow"
                 ELSE "Ok"

\* a genesis header older than the tip, accepted where a median is taken otherwise
C1_Witness ==
    /\ HeaderValidated /\ is_genesis(header) /\ result = "Ok"
    /\ Len(chain) >= 2 /\ rules.median_timestamp_count >= 2
    /\ header.timestamp < TipHeader.timestamp

DifficultyStepDecides ==
    /\ HeaderValidated /\ ~is_genesis(header) /\ ReadsSucceed /\ retarget.ok
    /\ check_median_timestamp(header, TipHeader, db) = "Ok"

\* C3 as stated: an achieved difficulty below the recomputed target fails with
\* AchievedDifficultyTooLow whatever the recorded target difficulty is.
C3_TooLowWhateverRecorded ==
    (DifficultyStepDecides /\ header.achieved_difficulty < retarget.value) =>
        result = "AchievedDifficultyTooLow"

\* C3 amended: an achieved difficulty below the recomputed target fails with
\* AchievedDifficultyTooLow when the recorded target difficulty equals the
\* recomputed one, and with InvalidTargetDifficulty when it differs.
C3_RecordedTargetCheckedFirst ==
    (DifficultyStepDecides /\ header.achieved_difficulty < retarget.value) =>
        result = IF header.target_difficulty = retarget.value
                 THEN "AchievedDifficultyTooLow"
                 ELSE "InvalidTargetDifficulty"

C3_Witness ==
    /\ DifficultyStepDecides /\ header.achieved_difficulty < retarget.value
    /\ header.target_difficulty = retarget.value
    /\ result = "AchievedDifficultyTooLow" /\ header.height = Len(chain)

\* the timestamps of the last min(median_timestamp_count, tip height + 1) headers
MedianWindow ==
    LET n == Min(rules.median_timestamp_count, Len(chain))
    IN  [i \in 1..n |-> chain[Len(chain) - n + i].timestamp]

\* C4: a non-genesis header of height tip + 1 fails with InvalidTimestamp when its
\* timestamp is below the median of the last min(median_timestamp_count,
\* tip height + 1) timestamps, and passes the timestamp step otherwise.
C4_TimestampAgainstMedian ==
    (/\ HeaderValidated /\ ~is_genesis(header) /\ ReadsSucceed
     /\ header.height = TipHeader.height + 1 /\ rules.median_timestamp_count >= 1) =>
        LET median == get_median_timestamp(MedianWindow).value
        IN  (result = "InvalidTimestamp") <=> (header.timestamp < median)

\* the headers of the chain with the new header's algorithm, oldest first
Matching == SelectSeq(chain, LAMBDA h : h.pow_algo = header.pow_algo)

ExpectedWindow ==
    LET m == Len(Matching)
        k == Min(rules.difficulty_block_window, m)
    IN  [i \in 1..k |-> <<Matching[m - k + i].timestamp,
                          Matching[m - k + i].target_difficulty>>]

WindowFetched ==
    /\ HeaderValidated /\ target_difficulties.tag # "NotCalled"
    /\ TipHeader.height > 0 /\ rules.difficulty_block_window > 0

\* C5: with complete, ordered batches, tip height > 0 and W > 0,
\* fetch_target_difficulties returns at most W entries: the (timestamp,
\* target_difficulty) pairs of the min(W, m) highest matching headers, oldest first.
C5_WindowIsMostRecentMatching ==
    (WindowFetched /\ db = Ordered) =>
        /\ target_difficulties.tag = "Ok"
        /\ Len(target_difficulties.value) <= rules.difficulty_block_window
        /\ target_difficulties.value = ExpectedWindow

\* W = 2 and three matching headers, the tip not among them: the window is cut
\* to the two most recent ones, which come from two batches
C5_Witness ==
    /\ WindowFetched /\ db = Ordered
    /\ rules.difficulty_block_window = 2 /\ Len(Matching) = 3
    /\ TipHeader.pow_algo # header.pow_algo
    /\ target_difficulties.value = <<<<1, 2>>, <<0, 3>>>>

\* C9: validate never panics: chunks() is never given 0, the assert on the number
\* of collected target difficulties never fires, get_median_timestamp is never
\* given an empty list.
C9_ValidateNeverPanics ==
    HeaderValidated => (result # "panic" /\ target_difficulties.tag # "panic")

\* block window 0 and median count 0 at once, both steps run
C9_Witness ==
    /\ HeaderValidated /\ ~is_genesis(header) /\ result = "Ok"
    /\ rules.difficulty_block_window = 0 /\ rules.median_timestamp_count = 0
    /\ header.height = Len(chain) /\ target_difficulties.tag = "Ok"

\* C10: whatever the order in which storage returns the headers of a batch, the
\* window is the min(W, m) highest matching headers, oldest first.
C10_WindowWhateverBatchOrder ==
    (WindowFetched /\ ReadsSucceed) =>
        /\ target_difficulties.tag = "Ok"
        /\ target_difficulties.value = ExpectedWindow

----------------------------------------------------------------------------
(* Claims about HorizonFinalStateValidator *)

\* the sum of total_kernel_offset over the headers of heights lo..=hi, once each
RECURSIVE OffsetsBetween(_, _)
OffsetsBetween(lo, hi) ==
    IF lo = hi THEN chain[lo + 1].total_kernel_offset
    ELSE LET mid == (lo + hi) \div 2
         IN  ScalarAdd(OffsetsBetween(lo, mid), OffsetsBetween(mid + 1, hi))

OffsetsUpTo(h) == OffsetsBetween(0, h)

Balanced ==
    CommitmentSum(utxos) =
        CommitmentAdd(CommitmentAdd(commit_value(0, supply), CommitmentSum(kernels)),
                      commit(OffsetsUpTo(horizon_height), 0))

\* C2: validate(H) returns Ok only if the sum of the UTXO commitments equals
\* commit_value(0, supply_at_block(H)) + the sum of the kernel excesses +
\* commit(the sum of total_kernel_offset over heights 0..=H once each, 0); when
\* the storage reads succeed it returns Ok if the equation holds and the
\* balance failure carrying H if it does not.
C2_BalanceEquationDecides ==
    (pc = "done" /\ scenario = "final_state") =>
        /\ final_result.kind # "panic"
        /\ (final_result = FinalOk => Balanced)
        /\ (failing = "none" =>
               final_result = IF Balanced THEN FinalOk ELSE BalanceFailure(horizon_height))

\* a balanced state whose offsets come from two batches of the scan
C2_Witness ==
    /\ pc = "done" /\ scenario = "final_state" /\ final_result = FinalOk
    /\ horizon_height > HEADER_CHUNK_SIZE /\ Len(utxos) = 2 /\ Len(kernels) = 1

====
